---- MODULE Spec2Model ----
(***************************************************************************)
(* State-machine model of SingleStockTradingEnv (src/sema1.py): the        *)
(* portfolio ledger, the trade executor, the drawdown risk controller, the *)
(* reward composer / normaliser bookkeeping and the reset/step interface.  *)
(*                                                                         *)
(* Numbers.  The program computes in binary floating point; the model      *)
(* computes the same expressions exactly, in fixed point:                  *)
(*   - money (balance, net_worth, peak, prev_net_worth, trade_cost) is an  *)
(*     integer number of 1/MoneyScale currency units;                      *)
(*   - the transaction cost rate is cfg.transaction_cost / MoneyScale;     *)
(*   - an action value is an integer numerator over ActDen;                *)
(*   - max_position_size is cfg.mps_num / cfg.mps_den;                     *)
(*   - a comparison  x/y > n/d  (y > 0) is evaluated as  x > (n*y) \div d, *)
(*     which is equivalent for integers x.                                 *)
(* Reward components are kept each in its own exact unit (stated where the *)
(* component is defined); their sum, the EMA recurrences, the z-score and  *)
(* tanh are kept as structured terms (which operation was applied to       *)
(* which operands), not evaluated.                                         *)
(***************************************************************************)
EXTENDS Integers, Sequences, FiniteSets, TLC

VARIABLES
    cfg,                  \* constructor arguments (immutable)
    df,                   \* the feature table, one record per row (immutable)
    balance,              \* self.balance
    position,             \* self.position
    net_worth,            \* self.net_worth
    peak,                 \* self.peak
    prev_net_worth,       \* self.prev_net_worth
    current_step,         \* self.current_step (0-based row index)
    history,              \* self.history
    returns_window,       \* self.returns_window
    transaction_count,    \* self.transaction_count
    reward_ema,           \* self.reward_ema, as the samples folded into it
    reward_var_ema,       \* self.reward_var_ema, as the samples folded into it
    ema_alpha,            \* self.ema_alpha, in hundredths
    reward_warmup_count,  \* self.reward_warmup_count
    last,                 \* the most recent call: argument, locals, results
    observation,          \* the observation the most recent call returned
    resets_in_row,        \* reset() calls made since the last step() call
    discarded,            \* history records the most recent reset() cleared
    replay                \* the results of a first instance, replayed on a second

vars == <<cfg, df, balance, position, net_worth, peak, prev_net_worth,
          current_step, history, returns_window, transaction_count,
          reward_ema, reward_var_ema, ema_alpha, reward_warmup_count, last,
          observation, resets_in_row, discarded, replay>>

(***************************************************************************)
(* Units and bounds                                                        *)
(***************************************************************************)
MoneyScale == 1000

ActDen == 10

MaxSteps == 3

MaxLongSteps == 13

MaxResets == 2

\* Step calls made on each of two instances
MaxReplay == 3

\* Executed steps per episode over a table longer than the returns window
MaxWindowSteps == 32

\* Steps of an episode over that table in which an order may be placed
WindowTradeSteps == 2

\* The first row of the collapsing table at which an order may be placed
SolventFrom == 8

MIN_STEPS == 10

warmup_steps == 10

WindowCap == 30

SharpeMin == 10

Min(x, y) == IF x <= y THEN x ELSE y

Max(x, y) == IF x >= y THEN x ELSE y

Abs(x) == IF x < 0 THEN -x ELSE x

\* x/y > n/d for integers x, y > 0, n >= 0, d > 0
FracGreater(x, y, n, d) == x > (n * y) \div d

(***************************************************************************)
(* Inputs: configurations, tables, actions                                 *)
(***************************************************************************)
\* __init__ arguments.  stop_loss and take_profit are in tenths,
\* max_drawdown is max_dd_num / max_dd_den, hold_threshold is over ActDen.
Config(ib, mn, md, tc) ==
    [initial_balance |-> ib * MoneyScale, mps_num |-> mn, mps_den |-> md,
     transaction_cost |-> tc, stop_loss |-> 9, take_profit |-> 11,
     max_dd_num |-> 1, max_dd_den |-> 5, hold_threshold |-> 1]

Configs == { Config(100000, 1, 2, 1), Config(1000, 1, 1, 1) }

\* One table row: Close_unscaled (whole currency units), Volatility_unscaled
\* in tenths, RSI_unscaled, ADX_unscaled, SMA10_unscaled, SMA50_unscaled.
\* The scaled feature columns of a row are identified by its Date.
Row(d, close, vol, rsi, adx, sma10, sma50) ==
    [Date |-> d, Close_unscaled |-> close, Volatility_unscaled |-> vol,
     RSI_unscaled |-> rsi, ADX_unscaled |-> adx, SMA10_unscaled |-> sma10,
     SMA50_unscaled |-> sma50]

Tables ==
    { << Row(0, 100, 5, 50, 20, 100, 100), Row(1, 100, 0, 70, 30, 101, 100),
         Row(2, 68, 12, 40, 40, 90, 98), Row(3, 58, 5, 20, 45, 80, 95) >>,
      << Row(0, 400, 5, 50, 26, 400, 390), Row(1, 320, 0, 70, 25, 380, 388),
         Row(2, 280, 12, 40, 35, 350, 380) >>,
      << Row(0, 100, 5, 50, 10, 100, 100), Row(1, 110, 0, 70, 30, 104, 101),
         Row(2, 92, 5, 60, 30, 100, 101) >>,
      << Row(0, 100, 5, 50, 30, 102, 100), Row(1, 75, 3, 35, 30, 95, 100) >>,
      << Row(0, 100, 5, 50, 30, 102, 100), Row(1, 130, 3, 75, 30, 110, 100) >> }

\* An indicator column the table does not have: looking it up in a row
\* raises KeyError
Absent == -1

\* Tables without the SMA10_unscaled and SMA50_unscaled columns.  Row 0 has
\* ADX <= 25, so the constructor's reset() does not look the SMA columns up.
MissingTables ==
    { << Row(0, 100, 5, 50, 20, Absent, Absent), Row(1, 100, 0, 70, 30, Absent, Absent),
         Row(2, 68, 12, 40, 40, Absent, Absent) >>,
      << Row(0, 100, 5, 50, 10, Absent, Absent), Row(1, 110, 0, 70, 30, Absent, Absent),
         Row(2, 92, 5, 60, 20, Absent, Absent) >> }

\* A table long enough for the termination check and the end of warm-up
LongRow(d) ==
    Row(d, IF d % 3 = 1 THEN 102 ELSE 100, 5, 50, 20 + d, 100 + d, 105)

LongTables == { [i \in 1..12 |-> LongRow(i - 1)] }

\* A configuration whose cost rate is 1.0: sales credit nothing
LongConfigs == { Config(100000, 1, 2, MoneyScale) }

\* Action numerators offered to step over a long table
LongActions == {0, 10, 20}

\* Action numerators offered to step: in bounds and out of bounds.
Actions == {-10, -5, 0, 1, 5, 10, -11, 20}

\* Configurations with the cost rate at 1.0 and at 0.001, and tables whose
\* price rises while shares are held
CostlyConfigs == { Config(1000, 1, 1, MoneyScale), Config(1000, 1, 1, 1) }

CostlyTables ==
    { << Row(0, 10, 5, 50, 20, 10, 10), Row(1, 400, 0, 70, 30, 200, 100),
         Row(2, 400, 12, 40, 40, 300, 200) >>,
      << Row(0, 100, 5, 50, 20, 100, 100), Row(1, 100, 0, 70, 30, 101, 100),
         Row(2, 68, 12, 40, 40, 90, 98), Row(3, 58, 5, 20, 45, 80, 95) >> }

\* Configurations with a cost rate just below 1.0 and at 0.001, over a table
\* long enough for the bankruptcy test, whose price collapses at the end
SolventConfigs == { Config(1000, 1, 1, MoneyScale - 1), Config(1000, 1, 2, 1) }

SolventRow(d) ==
    Row(d, IF d < 9 THEN 100 ELSE IF d = 9 THEN 120 ELSE 1, 5, 50, 20 + d, 100, 105)

SolventTables == { [i \in 1..12 |-> SolventRow(i - 1)] }

SolventActions == {-10, 0, 5, 10, 20}

\* A table longer than the returns window, with a price that keeps moving
WindowRow(d) == Row(d, 100 + ((d * d) % 7), 5, 50, 20, 100, 100)

WindowTables == { [i \in 1..36 |-> WindowRow(i - 1)] }

WindowConfigs == { Config(100000, 1, 2, 1) }

WindowActions == {0, 10, 20}

\* The configurations, tables and actions two instances are compared on
TwinConfigs == { Config(100000, 1, 2, 1) }

TwinTables ==
    { << Row(0, 100, 5, 50, 20, 100, 100), Row(1, 100, 0, 70, 30, 101, 100),
         Row(2, 68, 12, 40, 40, 90, 98), Row(3, 58, 5, 20, 45, 80, 95) >>,
      << Row(0, 100, 5, 50, 30, 102, 100), Row(1, 130, 3, 75, 30, 110, 100) >> }

TwinActions == {-10, 10, 20}

(***************************************************************************)
(* Action validation                                                       *)
(***************************************************************************)
\* Mutant: the bounds taken one grid step too wide
ActionContainsOffByOne(a) == a >= -(ActDen + 1) /\ a <= ActDen + 1

\* Mutant: the bounds taken as open
ActionContainsStrict(a) == a > -ActDen /\ a < ActDen

\* action_space = Box(low=-1, high=1): contains(action)
ActionContains(a) == a >= -ActDen /\ a <= ActDen

(***************************************************************************)
(* Trade executor                                                          *)
(***************************************************************************)
\* Mutant: no one-share fallback for a buy that rounds to zero
BuySharesNoFallback(bal, a, p, c) ==
    (bal * a * c.mps_num) \div (MoneyScale * ActDen * c.mps_den * p)

\* shares_to_buy, with the one-share fallback
BuyShares(bal, a, p, c) ==
    LET s0 == (bal * a * c.mps_num) \div (MoneyScale * ActDen * c.mps_den * p)
        one_share_cost == p * (MoneyScale + c.transaction_cost)
    IN  IF s0 = 0 /\ one_share_cost <= bal THEN 1 ELSE s0

\* Mutant: the transaction cost left out of the amount debited
BuyCostNoFee(s, p, c) == s * p * MoneyScale

\* total_cost of a buy
BuyCost(s, p, c) == s * p * (MoneyScale + c.transaction_cost)

\* Mutant: the affordability test dropped
BuyExecutesUnchecked(s, p, bal, c) == s > 0

\* the guard of the buy
BuyExecutes(s, p, bal, c) == s > 0 /\ BuyCost(s, p, c) <= bal

\* Mutant: no one-share fallback for a sell that rounds to zero
SellSharesNoFallback(pos, a, c) ==
    (pos * Abs(a) * c.mps_num) \div (ActDen * c.mps_den)

\* shares_to_sell, with the one-share fallback
SellShares(pos, a, c) ==
    LET s0 == (pos * Abs(a) * c.mps_num) \div (ActDen * c.mps_den)
    IN  IF s0 = 0 /\ pos > 0 THEN 1 ELSE s0

\* proceeds of a sale (primary or forced)
SellProceeds(s, p, c) == s * p * (MoneyScale - c.transaction_cost)

\* Mutant: a sale of zero shares let through
SellExecutesNonStrict(s, pos) == s >= 0 /\ s <= pos

\* the guard of the sell
SellExecutes(s, pos) == s > 0 /\ s <= pos

\* Mutant: the cost of one share, whatever the size of the order
TradeCostPerOrder(s, p, c) == p * c.transaction_cost

\* trade_cost of an executed order
TradeCost(s, p, c) == s * p * c.transaction_cost

\* invalid_action_penalty, in hundredths
InvalidActionPenalty == -1

\* Mutant: a zero action taken as a buy
TradeZeroBuys(bal, pos, tcount, a, p, c) ==
    IF a >= 0 THEN
        LET s == BuyShares(bal, a, p, c) IN
        IF BuyExecutes(s, p, bal, c)
        THEN [balance |-> bal - BuyCost(s, p, c), position |-> pos + s,
              transaction_count |-> tcount + 1, shares_traded |-> s,
              trade_cost |-> TradeCost(s, p, c), invalid_act_penalty |-> 0,
              kind |-> "buy", requested |-> s]
        ELSE [balance |-> bal, position |-> pos, transaction_count |-> tcount,
              shares_traded |-> 0, trade_cost |-> 0,
              invalid_act_penalty |-> InvalidActionPenalty,
              kind |-> "rejected", requested |-> s]
    ELSE IF a < 0 THEN
        LET s == SellShares(pos, a, c) IN
        IF SellExecutes(s, pos)
        THEN [balance |-> bal + SellProceeds(s, p, c), position |-> pos - s,
              transaction_count |-> tcount + 1, shares_traded |-> s,
              trade_cost |-> TradeCost(s, p, c), invalid_act_penalty |-> 0,
              kind |-> "sell", requested |-> s]
        ELSE [balance |-> bal, position |-> pos, transaction_count |-> tcount,
              shares_traded |-> 0, trade_cost |-> 0,
              invalid_act_penalty |-> InvalidActionPenalty,
              kind |-> "rejected", requested |-> s]
    ELSE [balance |-> bal, position |-> pos, transaction_count |-> tcount,
          shares_traded |-> 0, trade_cost |-> 0, invalid_act_penalty |-> 0,
          kind |-> "hold", requested |-> 0]

\* The trading logic of step: the primary trade.
Trade(bal, pos, tcount, a, p, c) ==
    IF a > 0 THEN
        LET s == BuyShares(bal, a, p, c) IN
        IF BuyExecutes(s, p, bal, c)
        THEN [balance |-> bal - BuyCost(s, p, c), position |-> pos + s,
              transaction_count |-> tcount + 1, shares_traded |-> s,
              trade_cost |-> TradeCost(s, p, c), invalid_act_penalty |-> 0,
              kind |-> "buy", requested |-> s]
        ELSE [balance |-> bal, position |-> pos, transaction_count |-> tcount,
              shares_traded |-> 0, trade_cost |-> 0,
              invalid_act_penalty |-> InvalidActionPenalty,
              kind |-> "rejected", requested |-> s]
    ELSE IF a < 0 THEN
        LET s == SellShares(pos, a, c) IN
        IF SellExecutes(s, pos)
        THEN [balance |-> bal + SellProceeds(s, p, c), position |-> pos - s,
              transaction_count |-> tcount + 1, shares_traded |-> s,
              trade_cost |-> TradeCost(s, p, c), invalid_act_penalty |-> 0,
              kind |-> "sell", requested |-> s]
        ELSE [balance |-> bal, position |-> pos, transaction_count |-> tcount,
              shares_traded |-> 0, trade_cost |-> 0,
              invalid_act_penalty |-> InvalidActionPenalty,
              kind |-> "rejected", requested |-> s]
    ELSE [balance |-> bal, position |-> pos, transaction_count |-> tcount,
          shares_traded |-> 0, trade_cost |-> 0, invalid_act_penalty |-> 0,
          kind |-> "hold", requested |-> 0]

(***************************************************************************)
(* Risk controller                                                         *)
(***************************************************************************)
\* Mutant: the shares held left out of the valuation
NetWorthCashOnly(bal, pos, p) == bal

\* float(balance + position * current_price)
NetWorth(bal, pos, p) == bal + pos * p * MoneyScale

\* Mutant: the factor 0.5 dropped
PartialSharesAll(pos) == pos

\* math.floor(self.position * 0.5)
PartialShares(pos) == pos \div 2

\* The base drawdown penalty 2.0 + initial_balance*some_factor is DrawdownBase
\* units; a drawdown penalty is an integer number of these units over 16.
DrawdownBase == 16

\* Mutant: the factor 1.25 dropped
AmplifySignOnly(dp) == -Abs(dp)

\* -abs(drawdown_penalty) * 1.25
Amplify(dp) == -((Abs(dp) * 5) \div 4)

\* current_drawdown > n/d, current_drawdown = ddn/ddd
DrawdownOver(ddn, ddd, n, d) == FracGreater(ddn, ddd, n, d)

\* Mutant: a partial liquidation of zero shares taken as an order
PartialFiresOnZeroShares(ddn, ddd, pos) ==
    DrawdownOver(ddn, ddd, 3, 20) /\ pos > 0

\* Mutant: the partial liquidation made exclusive of the full one
PartialFiresExclusive(ddn, ddd, pos) ==
    /\ DrawdownOver(ddn, ddd, 3, 20) /\ ~DrawdownOver(ddn, ddd, 1, 5)
    /\ pos > 0 /\ (pos \div 2) > 0

\* The partial liquidation fires (sells) on this drawdown and position
PartialFires(ddn, ddd, pos) ==
    DrawdownOver(ddn, ddd, 3, 20) /\ pos > 0 /\ PartialShares(pos) > 0

\* Mutant: the full liquidation threshold at 25%
FullFiresQuarter(ddn, ddd, pos) == DrawdownOver(ddn, ddd, 1, 4) /\ pos > 0

\* The full liquidation fires on this drawdown and position
FullFires(ddn, ddd, pos) == DrawdownOver(ddn, ddd, 1, 5) /\ pos > 0

\* Mutant: peak never raised
PeakUpdateKeep(pk, nw) == pk

\* Mutant: peak overwritten by the current net worth
PeakUpdateOverwrite(pk, nw) == nw

\* self.peak = max(self.peak, net_worth)
PeakUpdate(pk, nw) == Max(pk, nw)

\* Peak update, drawdown, drawdown penalty, partial and full forced
\* liquidation, applied to the post-trade ledger t at price p.
RiskControl(t, p, pk, pnw, c) ==
    LET nw0  == NetWorth(t.balance, t.position, p)
        pk1  == PeakUpdate(pk, nw0)
        ddn  == IF pk1 > 0 THEN pk1 - nw0 ELSE 0
        ddd  == IF pk1 > 0 THEN pk1 ELSE 1
        dp0  == IF DrawdownOver(ddn, ddd, 1, 20) THEN 0 - DrawdownBase ELSE 0
        dp1  == IF DrawdownOver(ddn, ddd, 1, 10) THEN Amplify(dp0) ELSE dp0
        \* partial forced liquidation
        pf   == PartialFires(ddn, ddd, t.position)
        ps   == IF pf THEN PartialShares(t.position) ELSE 0
        bal2 == IF pf THEN t.balance + SellProceeds(ps, p, c) ELSE t.balance
        pos2 == t.position - ps
        tc2  == IF pf THEN t.transaction_count + 1 ELSE t.transaction_count
        cost2 == IF pf THEN t.trade_cost + TradeCost(ps, p, c) ELSE t.trade_cost
        pk2  == IF pf THEN NetWorth(bal2, pos2, p) ELSE pk1
        pnw2 == IF pf THEN NetWorth(bal2, pos2, p) ELSE pnw
        \* full forced liquidation, on the same current_drawdown
        ff   == FullFires(ddn, ddd, pos2)
        fs   == IF ff THEN pos2 ELSE 0
        bal3 == IF ff THEN bal2 + SellProceeds(fs, p, c) ELSE bal2
        pos3 == IF ff THEN 0 ELSE pos2
        tc3  == IF ff THEN tc2 + 1 ELSE tc2
        cost3 == IF ff THEN cost2 + TradeCost(fs, p, c) ELSE cost2
        pk3  == IF ff THEN bal3 ELSE pk2
        pnw3 == IF ff THEN bal3 ELSE pnw2
    IN  [pre_net_worth |-> nw0, dd_num |-> ddn, dd_den |-> ddd,
         peak_updated |-> pk1,
         drawdown_penalty |-> Amplify(dp1),
         partial_fired |-> pf, partial_sold |-> ps,
         full_fired |-> ff, full_sold |-> fs,
         balance |-> bal3, position |-> pos3, transaction_count |-> tc3,
         trade_cost |-> cost3, peak |-> pk3, prev_net_worth |-> pnw3,
         net_worth |-> NetWorth(bal3, pos3, p)]

(***************************************************************************)
(* Reward composer                                                         *)
(***************************************************************************)
\* Mutant: the position test dropped
ForcedStopPenaltyAnyPosition(nw, pos, c) ==
    IF nw * 10 <= c.initial_balance * c.stop_loss THEN -3 ELSE 0

\* -3.0 (units of 1) when net_worth <= initial_balance*stop_loss and position > 0
ForcedStopPenalty(nw, pos, c) ==
    IF nw * 10 <= c.initial_balance * c.stop_loss /\ pos > 0 THEN -3 ELSE 0

\* -1.0 (units of 1) when net_worth >= initial_balance*take_profit and position > 0
ForcedTpPenalty(nw, pos, c) ==
    IF nw * 10 >= c.initial_balance * c.take_profit /\ pos > 0 THEN -1 ELSE 0

\* Mutant: profit_weight taken as 1.0
ProfitRewardUnweighted(change) == 2 * change

\* (net_worth_change / initial_balance) * profit_weight, profit_weight = 1.5:
\* in units of 1/(2*initial_balance)
ProfitReward(change) == 3 * change

\* Mutant: the newest entry dropped beyond the cap
PushReturnDropsNewest(w, r) ==
    LET w1 == Append(w, r) IN IF Len(w1) > WindowCap THEN SubSeq(w1, 1, WindowCap) ELSE w1

\* Appending to the returns window, dropping the oldest beyond the cap
PushReturn(w, r) ==
    LET w1 == Append(w, r) IN IF Len(w1) > WindowCap THEN Tail(w1) ELSE w1

\* sharpe * sharpe_bonus_weight over the window, or 0.0 with fewer than
\* SharpeMin entries: the term records the window the ratio is taken over.
SharpeBonus(w) ==
    IF Len(w) >= SharpeMin THEN [zero |-> FALSE, over |-> w]
    ELSE [zero |-> TRUE, over |-> << >>]

\* max(0, 1 - abs(action_value)/0.1)
HoldFactor(a) == Max(0, 1 - Abs(a))

\* 1.0 - clip(raw_vol / vol_thresh, 0, 1), vol_thresh = 1.0: in tenths
VolatilityFactor(vol) == 10 - Max(0, Min(vol, 10))

\* clip((raw_rsi - 30) / (70 - 30), 0, 1): in fortieths
RsiFactor(rsi) == Max(0, Min(rsi - 30, 40))

\* favorable_hold_factor * holding_bonus_weight * net_worth, as its factors
HoldingBonus(a, row, nw) ==
    [favorable |-> HoldFactor(a) * VolatilityFactor(row.Volatility_unscaled)
                    * RsiFactor(row.RSI_unscaled),
     net_worth |-> nw]

\* -(trade_cost / initial_balance) * penalty_scale, penalty_scale = 1.0:
\* in units of 1/initial_balance
TransactionPenalty(cost) == -cost

\* raw_reward: the sum of the components, kept as its summands
RawReward(t, r, change, w, a, row, c) ==
    [Profit_Reward |-> ProfitReward(change),
     Sharpe_Bonus |-> SharpeBonus(w),
     Forced_Stop_Penalty |-> ForcedStopPenalty(r.pre_net_worth, t.position, c),
     Forced_TP_Penalty |-> ForcedTpPenalty(r.pre_net_worth, t.position, c),
     Drawdown_Penalty |-> r.drawdown_penalty,
     Transaction_Penalty |-> TransactionPenalty(r.trade_cost),
     Holding_Bonus |-> HoldingBonus(a, row, r.net_worth),
     Invalid_Action_Penalty |-> t.invalid_act_penalty]

ZeroRaw ==
    [Profit_Reward |-> 0, Sharpe_Bonus |-> [zero |-> TRUE, over |-> << >>],
     Forced_Stop_Penalty |-> 0, Forced_TP_Penalty |-> 0, Drawdown_Penalty |-> 0,
     Transaction_Penalty |-> 0,
     Holding_Bonus |-> [favorable |-> 0, net_worth |-> 0],
     Invalid_Action_Penalty |-> 0]

(***************************************************************************)
(* Reward normaliser                                                       *)
(***************************************************************************)
\* reward_weights.get('ema_alpha', 0.01), in hundredths
EmaAlpha == 1

\* A reward value.  form "fixed": the constant `fixed`.  form "tanh_raw":
\* tanh(raw / reward_norm_factor) * reward_scale.  form "tanh_zscore":
\* tanh(((raw - EMA(mean)) / (sqrt(EMAVAR(var)) + 1e-8)) / reward_norm_factor)
\* * reward_scale.  `extra` is a constant added afterwards.
FixedReward(v) ==
    [form |-> "fixed", fixed |-> v, raw |-> ZeroRaw, mean |-> << >>,
     var |-> << >>, extra |-> 0]

\* The reward of a step from raw_reward, the warm-up counter and the EMA
\* state before the step.
NormalizedRewardUpdatedFirst(raw, count, ema, var) ==
    IF count < warmup_steps
    THEN [form |-> "tanh_raw", fixed |-> 0, raw |-> raw, mean |-> << >>,
          var |-> << >>, extra |-> 0]
    ELSE [form |-> "tanh_zscore", fixed |-> 0, raw |-> raw,
          mean |-> Append(ema, raw),
          var |-> Append(var, [x |-> raw, mean_len |-> Len(ema)]), extra |-> 0]

\* normalized_reward after the tanh tail: tanh(raw / reward_norm_factor) *
\* reward_scale during warm-up, and afterwards the same applied to
\* (raw - mean) / (sqrt(var) + 1e-8) with the EMA mean and variance passed in.
NormalizedReward(raw, count, ema, var) ==
    IF count < warmup_steps
    THEN [form |-> "tanh_raw", fixed |-> 0, raw |-> raw, mean |-> << >>,
          var |-> << >>, extra |-> 0]
    ELSE [form |-> "tanh_zscore", fixed |-> 0, raw |-> raw, mean |-> ema,
          var |-> var, extra |-> 0]

\* alpha*x + (1 - alpha)*old: the EMA after folding x in
EmaUpdate(ema, x) == Append(ema, x)

\* alpha*(x - old_mean)**2 + (1 - alpha)*old_var: the sample folded in and the
\* number of samples the mean it is measured from had folded in
VarUpdate(var, x, ema) == Append(var, [x |-> x, mean_len |-> Len(ema)])

\* the warm-up counter after a step
WarmupNext(count) == IF count < warmup_steps THEN count + 1 ELSE count

\* Locals of a call that did not reach the trading logic
NoLocals ==
    [price |-> 0, kind |-> "none", requested |-> 0, shares_traded |-> 0,
     invalid_act_penalty |-> 0, post_balance |-> 0, post_position |-> 0,
     dd_num |-> 0, dd_den |-> 1, partial_fired |-> FALSE, partial_sold |-> 0,
     full_fired |-> FALSE, full_sold |-> 0, trade_cost |-> 0,
     net_worth_change |-> 0, bankrupt |-> FALSE, primary_cost |-> 0,
     post_count |-> 0, pre_net_worth |-> 0]

Call(op, a, reward, terminated, locals) ==
    [op |-> op, action |-> a, reward |-> reward, terminated |-> terminated,
     loc |-> locals]

(***************************************************************************)
(* reset / step                                                            *)
(***************************************************************************)
\* _next_observation (A): the step index is kept within the table
ClampStep(i, n) == IF i >= n THEN n - 1 ELSE i

\* The market phase _next_observation derives from the row's indicators
ADX_THRESHOLD == 25

\* A lookup _next_observation makes in the row raises KeyError
MissingField(row) ==
    \/ row.ADX_unscaled = Absent
    \/ /\ row.ADX_unscaled > ADX_THRESHOLD
       /\ (row.SMA10_unscaled = Absent \/ row.SMA50_unscaled = Absent)

\* The instance has an attribute training_logger (the KeyError handlers call
\* self.training_logger.error; the class assigns no such attribute, the
\* logger is a module-level name)
SelfHasTrainingLogger == FALSE

\* What _next_observation raises at the row: the KeyError is caught, and the
\* handler's own attribute lookup fails
ObservationRaises(row) ==
    IF MissingField(row) /\ ~SelfHasTrainingLogger THEN "AttributeError"
    ELSE "none"

\* adx = 0.0 and phase = 'Sideways' are the handlers' defaults
Phase(row) ==
    IF row.ADX_unscaled # Absent /\ row.ADX_unscaled > ADX_THRESHOLD
    THEN IF row.SMA10_unscaled = Absent \/ row.SMA50_unscaled = Absent
         THEN "Sideways"
         ELSE IF row.SMA10_unscaled > row.SMA50_unscaled THEN "Bull" ELSE "Bear"
    ELSE "Sideways"

PhaseOneHot(ph) == << IF ph = "Bull" THEN 1 ELSE 0, IF ph = "Bear" THEN 1 ELSE 0,
                      IF ph = "Sideways" THEN 1 ELSE 0 >>

\* No observation: the call raised instead of returning one
NoObservation ==
    [raised |-> "none", features |-> 0, balance |-> 0, net_worth |-> 0,
     position |-> 0, phase |-> <<0, 0, 0>>, dd_num |-> 0, dd_den |-> 1,
     buffer_num |-> 0]

\* _next_observation at row index i with the given ledger.  features names
\* the row whose scaled feature columns are copied; balance, net_worth and
\* position are numerators over initial_balance; the drawdown fraction is
\* dd_num / dd_den and the drawdown buffer is buffer_num / (max_dd_den * dd_den).
Observation(i, bal, nw, pos, pk) ==
    LET row == df[ClampStep(i, Len(df)) + 1]
        ddn == IF pk > 0 THEN pk - nw ELSE 0
        ddd == IF pk > 0 THEN pk ELSE 1
    IN  IF ObservationRaises(row) # "none"
        THEN [NoObservation EXCEPT !.raised = ObservationRaises(row)]
        ELSE [raised |-> "none",
              features |-> row.Date, balance |-> bal, net_worth |-> nw,
              position |-> pos, phase |-> PhaseOneHot(Phase(row)),
              dd_num |-> ddn, dd_den |-> ddd,
              buffer_num |-> Max(0, cfg.max_dd_num * ddd - cfg.max_dd_den * ddn)]

\* Mutant: the net worth recorded as it was before the forced liquidations
StepRecordPreLiquidation(row, a, p, r, raw, reward) ==
    [Date |-> row.Date, Close_unscaled |-> p, Action |-> a,
     Buy_Signal_Price |-> IF a > 0 THEN p ELSE 0,
     Sell_Signal_Price |-> IF a < 0 THEN p ELSE 0,
     NetWorth |-> r.pre_net_worth, Balance |-> r.balance, Position |-> r.position,
     Reward |-> reward, raw_reward |-> raw, Trade_Cost |-> r.trade_cost]

\* The record step appends to history.  A price of 0 in Buy_Signal_Price or
\* Sell_Signal_Price stands for NaN (prices are positive).
StepRecord(row, a, p, r, raw, reward) ==
    [Date |-> row.Date, Close_unscaled |-> p, Action |-> a,
     Buy_Signal_Price |-> IF a > 0 THEN p ELSE 0,
     Sell_Signal_Price |-> IF a < 0 THEN p ELSE 0,
     NetWorth |-> r.net_worth, Balance |-> r.balance, Position |-> r.position,
     Reward |-> reward, raw_reward |-> raw, Trade_Cost |-> r.trade_cost]

\* The record appended by the end-of-data guard
OverrunRecord(row) ==
    [Date |-> row.Date, Close_unscaled |-> row.Close_unscaled, Action |-> "nan",
     Buy_Signal_Price |-> 0, Sell_Signal_Price |-> 0,
     NetWorth |-> net_worth, Balance |-> balance, Position |-> position,
     Reward |-> FixedReward(-1000), Trade_Cost |-> 0]

\* Mutant: a net worth of exactly zero not taken as bankruptcy
BankruptStrict(i, nw) == i >= MIN_STEPS /\ nw < 0

\* The termination check of step at row index i of n rows
Bankrupt(i, nw) == i >= MIN_STEPS /\ nw <= 0

\* Mutant: the end-of-data test dropped
TerminatedBankruptOnly(i, n, nw) == i >= MIN_STEPS /\ nw <= 0

Terminated(i, n, nw) == i >= MIN_STEPS /\ (nw <= 0 \/ i >= n - 1)

ResetStaleObservation ==
    /\ resets_in_row < MaxResets
    /\ balance' = cfg.initial_balance
    /\ position' = 0
    /\ net_worth' = cfg.initial_balance
    /\ current_step' = 0
    /\ history' = << >>
    /\ prev_net_worth' = cfg.initial_balance
    /\ peak' = cfg.initial_balance
    /\ returns_window' = << >>
    /\ transaction_count' = 0
    /\ reward_ema' = << >>
    /\ reward_var_ema' = << >>
    /\ ema_alpha' = 0
    /\ reward_warmup_count' = 0
    /\ last' = Call("reset", 0, FixedReward(0), FALSE, NoLocals)
    /\ observation' = Observation(current_step, balance, net_worth, position, peak)
    /\ resets_in_row' = resets_in_row + 1
    /\ discarded' = Len(history)
    /\ UNCHANGED <<cfg, df, replay>>

ResetKeepsEma ==
    /\ resets_in_row < MaxResets
    /\ balance' = cfg.initial_balance
    /\ position' = 0
    /\ net_worth' = cfg.initial_balance
    /\ current_step' = 0
    /\ history' = << >>
    /\ prev_net_worth' = cfg.initial_balance
    /\ peak' = cfg.initial_balance
    /\ returns_window' = << >>
    /\ transaction_count' = 0
    /\ UNCHANGED <<reward_ema, reward_var_ema>>
    /\ ema_alpha' = 0
    /\ reward_warmup_count' = 0
    /\ last' = Call("reset", 0, FixedReward(0), FALSE, NoLocals)
    /\ observation' = Observation(0, cfg.initial_balance, cfg.initial_balance,
                                  0, cfg.initial_balance)
    /\ resets_in_row' = resets_in_row + 1
    /\ discarded' = Len(history)
    /\ UNCHANGED <<cfg, df, replay>>

\* reset(): every field back to its start-of-episode value, then the
\* observation of row 0
Reset ==
    /\ resets_in_row < MaxResets
    /\ balance' = cfg.initial_balance
    /\ position' = 0
    /\ net_worth' = cfg.initial_balance
    /\ current_step' = 0
    /\ history' = << >>
    /\ prev_net_worth' = cfg.initial_balance
    /\ peak' = cfg.initial_balance
    /\ returns_window' = << >>
    /\ transaction_count' = 0
    /\ reward_ema' = << >>
    /\ reward_var_ema' = << >>
    /\ ema_alpha' = 0
    /\ reward_warmup_count' = 0
    /\ last' = Call("reset", 0, FixedReward(0), FALSE, NoLocals)
    /\ observation' = Observation(0, cfg.initial_balance, cfg.initial_balance,
                                  0, cfg.initial_balance)
    /\ resets_in_row' = resets_in_row + 1
    /\ discarded' = Len(history)
    /\ UNCHANGED <<cfg, df, replay>>

\* What a caller can see of one step call: the action passed, the results
\* returned and the instance's fields afterwards
Result ==
    [action |-> last.action, reward |-> last.reward,
     terminated |-> last.terminated, observation |-> observation,
     balance |-> balance, position |-> position, net_worth |-> net_worth,
     peak |-> peak, prev_net_worth |-> prev_net_worth,
     current_step |-> current_step, history |-> history,
     returns_window |-> returns_window,
     transaction_count |-> transaction_count, reward_ema |-> reward_ema,
     reward_var_ema |-> reward_var_ema, ema_alpha |-> ema_alpha,
     reward_warmup_count |-> reward_warmup_count]

\* No second instance is followed
ReplayOff == [mode |-> "off", log |-> << >>, pos |-> 0, same |-> TRUE]

\* The first instance is being driven and its results logged
ReplayFirst == [mode |-> "first", log |-> << >>, pos |-> 0, same |-> TRUE]

\* The step calls made on the instance being driven
StepsMade(rp) == IF rp.mode = "second" THEN rp.pos ELSE Len(rp.log)

\* One step call seen from the caller: the first instance's result is
\* logged; on the second instance, same records whether the actions passed so
\* far are the ones the first instance was given
ReplayStep(rp, a, res) ==
    CASE rp.mode = "off" -> rp
      [] rp.mode = "first" -> [rp EXCEPT !.log = Append(@, res)]
      [] rp.mode = "second" ->
           [rp EXCEPT !.pos = @ + 1,
                      !.same = @ /\ rp.pos < Len(rp.log)
                                 /\ rp.log[rp.pos + 1].action = a]

\* Mutant: the terminated flag of a rejected action left to chance
StepInvalidEither(a) ==
    /\ current_step' = ClampStep(current_step, Len(df))
    /\ \E t \in BOOLEAN : last' = Call("step", a, FixedReward(-1000), t, NoLocals)
    /\ observation' = Observation(current_step, balance, net_worth, position, peak)
    /\ resets_in_row' = 0
    /\ discarded' = 0
    /\ UNCHANGED <<cfg, df, balance, position, net_worth, peak, prev_net_worth,
                   history, returns_window, transaction_count, reward_ema,
                   reward_var_ema, ema_alpha, reward_warmup_count>>

\* step with an action the action space does not contain
StepInvalid(a) ==
    /\ current_step' = ClampStep(current_step, Len(df))
    /\ last' = Call("step", a, FixedReward(-1000), TRUE, NoLocals)
    /\ observation' = Observation(current_step, balance, net_worth, position, peak)
    /\ resets_in_row' = 0
    /\ discarded' = 0
    /\ UNCHANGED <<cfg, df, balance, position, net_worth, peak, prev_net_worth,
                   history, returns_window, transaction_count, reward_ema,
                   reward_var_ema, ema_alpha, reward_warmup_count>>

\* step past the last row (the end-of-data guard)
StepOverrun(a) ==
    /\ current_step' = ClampStep(current_step, Len(df))
    /\ history' = Append(history, OverrunRecord(df[ClampStep(current_step, Len(df)) + 1]))
    /\ last' = Call("step", a, FixedReward(-1000), TRUE, NoLocals)
    /\ observation' = Observation(current_step, balance, net_worth, position, peak)
    /\ resets_in_row' = 0
    /\ discarded' = 0
    /\ UNCHANGED <<cfg, df, balance, position, net_worth, peak, prev_net_worth,
                   returns_window, transaction_count, reward_ema,
                   reward_var_ema, ema_alpha, reward_warmup_count>>

HistoryAppendReplacesLast(h, rec) ==
    IF h = << >> THEN << rec >> ELSE [h EXCEPT ![Len(h)] = rec]

\* self.history.append(record)
HistoryAppend(h, rec) == Append(h, rec)

\* step with a contained action at a row of the table: trade, risk control,
\* reward, history, termination check, step update
StepTrade(a) ==
    LET row    == df[current_step + 1]
        p      == row.Close_unscaled
        t      == Trade(balance, position, transaction_count, a, p, cfg)
        change == NetWorth(t.balance, t.position, p) - prev_net_worth
        w      == PushReturn(returns_window, change)
        r      == RiskControl(t, p, peak, prev_net_worth, cfg)
        raw    == RawReward(t, r, change, w, a, row, cfg)
        norm   == NormalizedReward(raw, reward_warmup_count, reward_ema, reward_var_ema)
        bk     == Bankrupt(current_step, r.net_worth)
        term   == Terminated(current_step, Len(df), r.net_worth)
        ret    == IF bk THEN [norm EXCEPT !.extra = -10] ELSE norm
    IN  /\ balance' = r.balance
        /\ position' = r.position
        /\ transaction_count' = r.transaction_count
        /\ peak' = r.peak
        /\ net_worth' = r.net_worth
        /\ returns_window' = w
        /\ ema_alpha' = EmaAlpha
        /\ reward_ema' = EmaUpdate(reward_ema, raw)
        /\ reward_var_ema' = VarUpdate(reward_var_ema, raw, reward_ema)
        /\ reward_warmup_count' = WarmupNext(reward_warmup_count)
        /\ history' = HistoryAppend(history, StepRecord(row, a, p, r, raw, norm))
        /\ prev_net_worth' = IF term THEN r.prev_net_worth ELSE r.net_worth
        /\ current_step' = Min(IF term THEN current_step ELSE current_step + 1,
                               Len(df) - 1)
        /\ last' = Call("step", a, ret, term,
                        [price |-> p, kind |-> t.kind, requested |-> t.requested,
                         shares_traded |-> t.shares_traded,
                         invalid_act_penalty |-> t.invalid_act_penalty,
                         post_balance |-> t.balance, post_position |-> t.position,
                         dd_num |-> r.dd_num, dd_den |-> r.dd_den,
                         partial_fired |-> r.partial_fired,
                         partial_sold |-> r.partial_sold,
                         full_fired |-> r.full_fired, full_sold |-> r.full_sold,
                         trade_cost |-> r.trade_cost,
                         net_worth_change |-> change, bankrupt |-> bk,
                         primary_cost |-> t.trade_cost,
                         post_count |-> t.transaction_count,
                         pre_net_worth |-> r.pre_net_worth])
        /\ observation' = Observation(current_step', r.balance, r.net_worth,
                                      r.position, r.peak)
        /\ resets_in_row' = 0
        /\ discarded' = 0
        /\ UNCHANGED <<cfg, df>>

\* step(action): the whole handler
StepCall(a) ==
    IF ~ActionContains(a) THEN StepInvalid(a)
    ELSE IF current_step >= Len(df) THEN StepOverrun(a) ELSE StepTrade(a)

\* step(action), at most MaxSteps executed steps per episode
Step(a) ==
    /\ ActionContains(a) => Len(history) < MaxSteps
    /\ StepCall(a)
    /\ replay' = ReplayStep(replay, a, Result')

\* step(action) over a long table, at most MaxLongSteps executed steps
StepLong(a) ==
    /\ ActionContains(a) => Len(history) < MaxLongSteps
    /\ StepCall(a)
    /\ replay' = ReplayStep(replay, a, Result')

\* step(action) on either of two instances, at most MaxReplay calls each
StepTwin(a) ==
    /\ StepsMade(replay) < MaxReplay
    /\ StepCall(a)
    /\ replay' = ReplayStep(replay, a, Result')

\* step(action) over the collapsing table: at most MaxLongSteps executed
\* steps, holds only before row SolventFrom
StepSolvent(a) ==
    /\ ActionContains(a) => Len(history) < MaxLongSteps
    /\ (ActionContains(a) /\ a # 0) => current_step >= SolventFrom
    /\ StepCall(a)
    /\ replay' = ReplayStep(replay, a, Result')

\* step(action) over a table longer than the returns window: at most
\* MaxWindowSteps executed steps, orders in the first WindowTradeSteps only
StepWindow(a) ==
    /\ ActionContains(a) => Len(history) < MaxWindowSteps
    /\ (ActionContains(a) /\ a # 0) => Len(history) < WindowTradeSteps
    /\ StepCall(a)
    /\ replay' = ReplayStep(replay, a, Result')

\* A second instance is constructed with the configuration and the table of
\* the first (__init__ copies the table and ends in reset()); from here on
\* the state is the second instance's
Construct ==
    /\ replay.mode = "first"
    /\ balance' = cfg.initial_balance
    /\ position' = 0
    /\ net_worth' = cfg.initial_balance
    /\ current_step' = 0
    /\ history' = << >>
    /\ prev_net_worth' = cfg.initial_balance
    /\ peak' = cfg.initial_balance
    /\ returns_window' = << >>
    /\ transaction_count' = 0
    /\ reward_ema' = << >>
    /\ reward_var_ema' = << >>
    /\ ema_alpha' = 0
    /\ reward_warmup_count' = 0
    /\ last' = Call("reset", 0, FixedReward(0), FALSE, NoLocals)
    /\ observation' = Observation(0, cfg.initial_balance, cfg.initial_balance,
                                  0, cfg.initial_balance)
    /\ resets_in_row' = 1
    /\ discarded' = 0
    /\ replay' = [replay EXCEPT !.mode = "second"]
    /\ UNCHANGED <<cfg, df>>

\* The state after __init__, which ends in reset()
InitFor(configs, tables) ==
    /\ cfg \in configs
    /\ df \in tables
    /\ balance = cfg.initial_balance
    /\ position = 0
    /\ net_worth = cfg.initial_balance
    /\ current_step = 0
    /\ history = << >>
    /\ prev_net_worth = cfg.initial_balance
    /\ peak = cfg.initial_balance
    /\ returns_window = << >>
    /\ transaction_count = 0
    /\ reward_ema = << >>
    /\ reward_var_ema = << >>
    /\ ema_alpha = 0
    /\ reward_warmup_count = 0
    /\ last = Call("reset", 0, FixedReward(0), FALSE, NoLocals)
    /\ observation = Observation(0, cfg.initial_balance, cfg.initial_balance,
                                 0, cfg.initial_balance)
    /\ resets_in_row = 1
    /\ discarded = 0

Init == InitFor(Configs, Tables) /\ replay = ReplayOff

InitLong == InitFor(LongConfigs, LongTables) /\ replay = ReplayOff

Next ==
    \/ \E a \in Actions : Step(a)
    \/ Reset

NextLong ==
    \/ \E a \in LongActions : StepLong(a)
    \/ Reset

Spec == Init /\ [][Next]_vars

\* Episodes over a long table
SpecLong == InitLong /\ [][NextLong]_vars

\* Episodes over tables that lack the SMA columns
InitMissing == InitFor(Configs, MissingTables) /\ replay = ReplayOff

SpecMissing == InitMissing /\ [][Next]_vars

\* Episodes in which a sale may credit nothing
InitCostly == InitFor(CostlyConfigs, CostlyTables) /\ replay = ReplayOff

SpecCostly == InitCostly /\ [][Next]_vars

\* Episodes over the collapsing table with cost rates below 1
InitSolvent == InitFor(SolventConfigs, SolventTables) /\ replay = ReplayOff

NextSolvent ==
    \/ \E a \in SolventActions : StepSolvent(a)
    \/ Reset

SpecSolvent == InitSolvent /\ [][NextSolvent]_vars

\* Episodes over a table longer than the returns window
InitWindow == InitFor(WindowConfigs, WindowTables) /\ replay = ReplayOff

NextWindow ==
    \/ \E a \in WindowActions : StepWindow(a)
    \/ Reset

SpecWindow == InitWindow /\ [][NextWindow]_vars

\* Two instances built from the same configuration and table, driven one
\* after the other
InitTwin == InitFor(TwinConfigs, TwinTables) /\ replay = ReplayFirst

NextTwin ==
    \/ \E a \in TwinActions : StepTwin(a)
    \/ Construct

SpecTwin == InitTwin /\ [][NextTwin]_vars

(***************************************************************************)
(* Properties                                                              *)
(***************************************************************************)
\* A transition made by a step call whose action lies outside [-1, 1]
OutOfBoundsStep == last'.op = "step" /\ (last'.action < -ActDen \/ last'.action > ActDen)

\* A transition made by a step call that ran the trading logic
ExecutedStep == last'.op = "step" /\ last'.loc.kind # "none" /\ history' # history

\* current_drawdown of the step just taken compared with n/d
DdOver(l, n, d) == l.dd_num * d > n * l.dd_den

\* C1: a step whose action is outside [-1, 1] returns reward -1000 and
\* terminated = True and changes none of balance, position, net_worth, peak,
\* transaction_count, step index, history, returns window, EMA mean and
\* variance, warm-up counter.
C1_InvalidActionLeavesState ==
    [][OutOfBoundsStep =>
         /\ last'.reward = FixedReward(-1000)
         /\ last'.terminated
         /\ UNCHANGED <<balance, position, net_worth, peak, prev_net_worth,
                        transaction_count, current_step, history,
                        returns_window, reward_ema, reward_var_ema,
                        reward_warmup_count>>]_vars

C1_Witness ==
    /\ last.op = "step" /\ last.action = 2 * ActDen
    /\ last.reward.fixed = -1000 /\ last.terminated
    /\ Len(history) = 2 /\ position > 0 /\ reward_warmup_count = 2

\* C2: after reset and after every step, balance >= 0 and position is an
\* integer >= 0, forced liquidations included.
C2_LedgerNonNegative == balance >= 0 /\ position \in Nat

C2_Witness ==
    /\ last.op = "step" /\ last.loc.partial_fired /\ last.loc.full_fired
    /\ balance > 0 /\ position = 0

\* C3 as stated: over every step of an episode, peak after >= peak before.
C3_PeakMonotone == [][last'.op = "step" => peak' >= peak]_vars

\* C3 amended: peak is non-decreasing over every step in which no forced
\* liquidation sells shares; a step in which one does sets peak to the
\* net worth left after the liquidation.
C3_PeakMonotoneUnlessLiquidated ==
    [][last'.op = "step" =>
         IF last'.loc.partial_fired \/ last'.loc.full_fired
         THEN peak' = net_worth'
         ELSE peak' >= peak]_vars

C3_Witness ==
    /\ last.op = "step" /\ last.loc.kind = "hold"
    /\ ~last.loc.partial_fired /\ ~last.loc.full_fired
    /\ peak > cfg.initial_balance /\ position > 0

\* C4: an executed buy of s shares at price p lowers balance by exactly
\* s*p*(1+c) and raises position by s; an executed sell of s shares raises
\* balance by exactly s*p*(1-c) and lowers position by s; with no forced
\* liquidation in the step these are the step's total changes.
C4_Conservation ==
    [][ExecutedStep =>
         LET l == last'.loc
             s == l.shares_traded
             quiet == ~l.partial_fired /\ ~l.full_fired
         IN  /\ l.kind = "buy" =>
                  /\ s > 0
                  /\ l.post_balance = balance - s * l.price * (MoneyScale + cfg.transaction_cost)
                  /\ l.post_position = position + s
             /\ l.kind = "sell" =>
                  /\ s > 0
                  /\ l.post_balance = balance + s * l.price * (MoneyScale - cfg.transaction_cost)
                  /\ l.post_position = position - s
             /\ quiet => balance' = l.post_balance /\ position' = l.post_position
       ]_vars

C4_Witness ==
    /\ last.op = "step" /\ last.loc.kind = "sell" /\ last.loc.shares_traded > 1
    /\ ~last.loc.partial_fired /\ ~last.loc.full_fired
    /\ Len(history) >= 2 /\ history[Len(history) - 1].Action > 0

\* C5: for an action a > 0 the order size is floor(balance*a*max_position_size
\* / price), replaced by 1 when that is 0 and price*(1+cost) <= balance; the
\* buy executes iff shares > 0 and shares*price*(1+cost) <= balance.
C5_BuySizing ==
    [][(ExecutedStep /\ last'.action > 0) =>
         LET l  == last'.loc
             s0 == (balance * last'.action * cfg.mps_num)
                     \div (MoneyScale * ActDen * cfg.mps_den * l.price)
             one == l.price * (MoneyScale + cfg.transaction_cost)
             s  == IF s0 = 0 /\ one <= balance THEN 1 ELSE s0
             ok == s > 0 /\ s * one <= balance
         IN  /\ l.requested = s
             /\ (l.kind = "buy") <=> ok
             /\ ok => l.shares_traded = s /\ l.post_position = position + s
             /\ ~ok => /\ l.kind = "rejected"
                       /\ l.post_balance = balance
                       /\ l.post_position = position
       ]_vars

\* Scenario A: balance 100000, price 100, a = 1.0, max_position_size 0.5,
\* cost 0.001: 500 shares, balance 49950, position 500.
C5_Witness ==
    /\ cfg.initial_balance = 100000 * MoneyScale /\ cfg.mps_den = 2
    /\ Len(history) = 1 /\ last.op = "step" /\ last.action = ActDen
    /\ last.loc.price = 100 /\ last.loc.kind = "buy"
    /\ last.loc.shares_traded = 500
    /\ balance = 49950 * MoneyScale /\ position = 500

\* C6: for an action a < 0 the order size is floor(position*|a|*
\* max_position_size), replaced by 1 when that is 0 and position > 0; the
\* sell executes iff 0 < shares <= position and credits shares*price*(1-cost).
C6_SellSizing ==
    [][(ExecutedStep /\ last'.action < 0) =>
         LET l  == last'.loc
             s0 == (position * (0 - last'.action) * cfg.mps_num)
                     \div (ActDen * cfg.mps_den)
             s  == IF s0 = 0 /\ position > 0 THEN 1 ELSE s0
             ok == s > 0 /\ s <= position
         IN  /\ l.requested = s
             /\ (l.kind = "sell") <=> ok
             /\ ok => /\ l.shares_traded = s
                      /\ l.post_position = position - s
                      /\ l.post_balance =
                           balance + s * l.price * (MoneyScale - cfg.transaction_cost)
             /\ ~ok => /\ l.kind = "rejected"
                       /\ l.post_balance = balance
                       /\ l.post_position = position
       ]_vars

\* Scenario B: position 500, a = -1.0, max_position_size 0.5, price 100,
\* cost 0.001: 250 shares sold for 24975.
C6_Witness ==
    /\ cfg.mps_den = 2 /\ Len(history) = 2 /\ history[1].Position = 500
    /\ last.op = "step" /\ last.action = -ActDen /\ last.loc.price = 100
    /\ last.loc.kind = "sell" /\ last.loc.shares_traded = 250
    /\ balance = history[1].Balance + 24975 * MoneyScale /\ position = 250

\* A step (in-bounds action) whose requested buy or sell could not execute:
\* a buy of no share or costing more than the balance, a sell of no share or
\* of more than the position
RejectedStep ==
    /\ ExecutedStep
    /\ LET l == last'.loc
           s == l.requested
       IN  \/ /\ last'.action > 0
              /\ ~(s > 0 /\ s * l.price * (MoneyScale + cfg.transaction_cost) <= balance)
           \/ /\ last'.action < 0
              /\ ~(s > 0 /\ s <= position)

\* The termination check taken by the step just made from the current state
TerminationDue ==
    current_step >= MIN_STEPS /\ (net_worth' <= 0 \/ current_step >= Len(df) - 1)

\* C7 as stated: a step whose requested trade cannot execute leaves balance,
\* position and transaction_count as they were, has invalid_action_penalty
\* -0.01 and does not terminate the episode because of the rejection.
C7_RejectedNoMutation ==
    [][RejectedStep =>
         /\ balance' = balance /\ position' = position
         /\ transaction_count' = transaction_count
         /\ last'.loc.invalid_act_penalty = -1
         /\ last'.terminated => TerminationDue]_vars

\* C7 amended: the rejected primary trade changes nothing (the post-trade
\* balance and position are those before the step), the penalty is -0.01 and
\* the rejection does not terminate; balance, position and transaction_count
\* are the same after the step as before provided no forced liquidation sells
\* shares in that step.
C7_RejectedNoMutationUnlessLiquidated ==
    [][RejectedStep =>
         /\ last'.loc.post_balance = balance /\ last'.loc.post_position = position
         /\ last'.loc.shares_traded = 0
         /\ (~last'.loc.partial_fired /\ ~last'.loc.full_fired) =>
                /\ balance' = balance /\ position' = position
                /\ transaction_count' = transaction_count
         /\ history'[Len(history')].raw_reward.Invalid_Action_Penalty = -1
         /\ last'.loc.invalid_act_penalty = -1
         /\ last'.terminated => TerminationDue]_vars

C7_Witness ==
    /\ last.op = "step" /\ last.loc.kind = "rejected" /\ last.action > 0
    /\ ~last.loc.partial_fired /\ ~last.loc.full_fired
    /\ position > 0 /\ ~last.terminated
    /\ history[Len(history)].raw_reward.Invalid_Action_Penalty = -1

\* A step whose post-trade drawdown is > 0.15 and <= 0.20
InPartialBand(l) == DdOver(l, 3, 20) /\ ~DdOver(l, 1, 5)

\* The effect C8 states for a post-trade position P at price l.price
PartialEffect(l) ==
    LET P == l.post_position
        h == P \div 2
    IN  /\ l.partial_sold = h
        /\ balance' = l.post_balance + h * l.price * (MoneyScale - cfg.transaction_cost)
        /\ position' = P - h
        /\ peak' = balance' + position' * l.price * MoneyScale

\* C8 as stated: in a step with post-trade drawdown in (0.15, 0.20] and
\* post-trade position P >= 1, floor(P/2) shares are sold at the current price
\* for shares*price*(1-cost), position becomes P - floor(P/2) and peak is
\* recomputed as the resulting balance + position*price.
C8_PartialLiquidation ==
    [][(ExecutedStep /\ InPartialBand(last'.loc) /\ last'.loc.post_position >= 1)
         => PartialEffect(last'.loc)]_vars

\* C8 amended: the same for every P >= 2; with P = 1 nothing is sold,
\* balance and position stay as after the trade and peak is not recomputed
\* (it stays max(peak, post-trade net worth)).
C8_PartialLiquidationFromTwo ==
    [][(ExecutedStep /\ InPartialBand(last'.loc)) =>
         LET l == last'.loc IN
         /\ l.post_position >= 2 => PartialEffect(l)
         /\ l.post_position = 1 =>
              /\ l.partial_sold = 0
              /\ balance' = l.post_balance /\ position' = 1
              /\ peak' = l.dd_den /\ peak' >= peak /\ peak' > net_worth'
       ]_vars

C8_Witness ==
    /\ last.op = "step" /\ InPartialBand(last.loc) /\ last.loc.post_position = 500
    /\ last.loc.partial_sold = 250 /\ position = 250 /\ peak = net_worth
    /\ peak < cfg.initial_balance

\* C9: a step whose post-trade drawdown is > 0.20 with post-trade position
\* > 0 ends with position = 0, peak = balance and net worth = balance.
C9_FullLiquidation ==
    [][(ExecutedStep /\ DdOver(last'.loc, 1, 5) /\ last'.loc.post_position > 0) =>
         /\ position' = 0 /\ peak' = balance' /\ net_worth' = balance'
         /\ history'[Len(history')].Position = 0
         /\ history'[Len(history')].NetWorth = balance']_vars

C9_Witness ==
    /\ last.op = "step" /\ DdOver(last.loc, 1, 5) /\ last.loc.post_position > 1
    /\ last.loc.full_fired /\ position = 0 /\ peak = balance /\ net_worth = balance

\* C10: both liquidations are tested against the pre-liquidation drawdown:
\* drawdown <= 0.15: neither sells; drawdown in (0.15, 0.20]: only the
\* partial one sells; drawdown > 0.20 and position P > 0: the partial one
\* sells floor(P/2), the full one the remaining P - floor(P/2), together
\* crediting exactly P*price*(1-cost).
C10_LiquidationOrdering ==
    [][ExecutedStep =>
         LET l == last'.loc
             P == l.post_position
             h == P \div 2
             net == l.price * (MoneyScale - cfg.transaction_cost)
         IN  /\ ~DdOver(l, 3, 20) =>
                  /\ l.partial_sold = 0 /\ l.full_sold = 0
                  /\ balance' = l.post_balance /\ position' = P
             /\ InPartialBand(l) =>
                  /\ l.partial_sold = h /\ l.full_sold = 0 /\ ~l.full_fired
                  /\ balance' = l.post_balance + h * net /\ position' = P - h
             /\ (DdOver(l, 1, 5) /\ P > 0) =>
                  /\ l.partial_sold = h /\ l.full_sold = P - h /\ l.full_fired
                  /\ balance' = l.post_balance + P * net /\ position' = 0
                  /\ transaction_count' - transaction_count =
                       (IF l.kind \in {"buy", "sell"} THEN 1 ELSE 0)
                       + (IF h > 0 THEN 1 ELSE 0) + 1
       ]_vars

C10_Witness ==
    /\ last.op = "step" /\ DdOver(last.loc, 1, 5) /\ last.loc.post_position > 2
    /\ last.loc.partial_sold = last.loc.post_position \div 2
    /\ last.loc.partial_sold > 0
    /\ last.loc.full_sold = last.loc.post_position - last.loc.partial_sold
    /\ position = 0

\* The ledger, episode and normaliser fields of the environment
EnvState ==
    <<balance, position, net_worth, peak, prev_net_worth, current_step, history,
      returns_window, transaction_count, reward_ema, reward_var_ema, ema_alpha,
      reward_warmup_count>>

\* The observation of a fresh episode
InitialObservation ==
    Observation(0, cfg.initial_balance, cfg.initial_balance, 0,
                cfg.initial_balance)

\* C11: a reset() made directly after a reset(), with no step between them,
\* returns the same observation as the first, leaves history empty and
\* leaves every state variable at the value the first reset gave it.
C11_ResetIdempotent ==
    [][(last.op = "reset" /\ last'.op = "reset"
        /\ resets_in_row' = resets_in_row + 1) =>
         /\ observation' = observation
         /\ history' = << >>
         /\ EnvState' = EnvState]_vars

C11_Witness ==
    /\ last.op = "reset" /\ resets_in_row = 2
    /\ history = << >> /\ observation = InitialObservation

\* C12: after any sequence of steps, reset() leaves balance, net_worth, peak
\* and prev_net_worth at initial_balance, position, step index and
\* transaction_count at 0, history and returns window empty, the EMA mean,
\* EMA variance and warm-up counter at their start-of-episode values, and
\* returns the observation of a fresh episode.
C12_ResetRestoresInitialState ==
    last.op = "reset" =>
        /\ balance = cfg.initial_balance /\ net_worth = cfg.initial_balance
        /\ peak = cfg.initial_balance /\ prev_net_worth = cfg.initial_balance
        /\ position = 0 /\ current_step = 0 /\ transaction_count = 0
        /\ history = << >> /\ returns_window = << >>
        /\ reward_ema = << >> /\ reward_var_ema = << >>
        /\ ema_alpha = 0 /\ reward_warmup_count = 0
        /\ observation = InitialObservation

C12_Witness ==
    /\ last.op = "reset" /\ discarded > 0
    /\ balance = cfg.initial_balance /\ reward_ema = << >>
    /\ reward_warmup_count = 0

\* A transition made by a step call whose action is +1, -1 or the hold
\* threshold
BoundaryStep ==
    /\ last'.op = "step" /\ resets_in_row' = 0
    /\ last'.action \in {ActDen, -ActDen, cfg.hold_threshold}

\* C13: a step whose action is exactly +1, exactly -1 or exactly the hold
\* threshold is accepted: the reward is not the fixed -1000, the step
\* terminates only if the termination check says so, and the trade logic
\* runs (a buy request for a positive action, a sell request for a negative
\* one) and the step is recorded.
C13_BoundsInclusive ==
    [][BoundaryStep =>
         /\ last'.reward.form # "fixed"
         /\ last'.terminated => TerminationDue
         /\ last'.loc.kind \in (IF last'.action > 0 THEN {"buy", "rejected"}
                                ELSE {"sell", "rejected"})
         /\ Len(history') = Len(history) + 1]_vars

C13_Witness ==
    /\ last.op = "step" /\ last.action \in {ActDen, -ActDen}
    /\ last.loc.kind \in {"buy", "sell"} /\ last.loc.shares_traded > 0
    /\ last.reward.form # "fixed" /\ ~last.terminated

\* C14 as stated: a valid step executed while the step index equals the last
\* row index returns terminated = True, and its reward carries neither the
\* fixed -1000 nor the extra -10.
C14_LastRowTerminates ==
    [][(ExecutedStep /\ current_step = Len(df) - 1) =>
         /\ last'.terminated
         /\ last'.reward.form # "fixed"
         /\ last'.reward.extra = 0]_vars

\* C15 as stated: an episode driven by in-bounds actions has returned
\* terminated = True by its len(data)-th executed step.
C15_EpisodeTerminates ==
    (last.op = "step" /\ last.loc.kind # "none" /\ Len(history) = Len(df))
        => last.terminated

\* The last executed step of the episode already ran at the last row
DataExhausted ==
    /\ history # << >>
    /\ history[Len(history)].Date = df[Len(df)].Date
    /\ current_step >= Len(df) - 1

\* C16 as stated: an in-bounds step called when the data is already
\* exhausted returns the fixed reward -1000 with terminated = True and
\* leaves balance, position and net_worth unchanged.
C16_ExhaustedStepPenalised ==
    [][(last'.op = "step" /\ resets_in_row' = 0 /\ ActionContains(last'.action)
        /\ DataExhausted) =>
         /\ last'.reward = FixedReward(-1000)
         /\ last'.terminated
         /\ UNCHANGED <<balance, position, net_worth>>]_vars

\* A transition made by a step call whose action the action space contains
InBoundsStep ==
    last'.op = "step" /\ resets_in_row' = 0 /\ ActionContains(last'.action)

\* The record the step just made appended to history
NewRecord == history'[Len(history')]

\* C17: a step that leaves net_worth <= 0 returns terminated = True and the
\* recorded normalized reward minus 10 when its step index is at least 10,
\* and does not terminate, returning the normalized reward as it is, when
\* its step index is below 10.
C17_Bankruptcy ==
    [][(InBoundsStep /\ net_worth' <= 0) =>
         /\ Len(history') = Len(history) + 1
         /\ NewRecord.Reward.form # "fixed" /\ NewRecord.Reward.extra = 0
         /\ IF current_step >= MIN_STEPS
            THEN /\ last'.terminated
                 /\ last'.reward = [NewRecord.Reward EXCEPT !.extra = -10]
            ELSE /\ ~last'.terminated
                 /\ last'.reward = NewRecord.Reward]_vars

C17_Witness ==
    /\ last.op = "step" /\ last.terminated /\ net_worth <= 0
    /\ current_step >= MIN_STEPS /\ Len(history) > MIN_STEPS
    /\ last.reward.form = "tanh_zscore" /\ last.reward.extra = -10

\* C18: every step with an in-bounds action appends exactly one record to
\* history and leaves the earlier records as they were; history changes in
\* no other way than by such an append or by reset, which empties it; and
\* the length of history is the number of steps executed since the reset
\* (one sample folded into the EMA per executed step).
C18_HistoryAppendOnly ==
    [][/\ InBoundsStep =>
            /\ Len(history') = Len(history) + 1
            /\ SubSeq(history', 1, Len(history)) = history
       /\ history' # history =>
            \/ InBoundsStep
            \/ last'.op = "reset" /\ history' = << >>
       /\ Len(history') = Len(reward_ema')]_vars

C18_Witness ==
    /\ last.op = "step" /\ last.loc.kind # "none"
    /\ Len(history) = MaxSteps /\ Len(reward_ema) = MaxSteps
    /\ history[1].Date = df[1].Date

\* A raw reward whose summands are all at most zero and which includes the
\* invalid-action penalty: its value is at most -0.01
RawClearlyNegative(raw) ==
    /\ raw.Profit_Reward <= 0 /\ raw.Sharpe_Bonus.zero
    /\ raw.Forced_Stop_Penalty <= 0 /\ raw.Forced_TP_Penalty <= 0
    /\ raw.Drawdown_Penalty <= 0 /\ raw.Transaction_Penalty <= 0
    /\ raw.Holding_Bonus.favorable = 0
    /\ raw.Invalid_Action_Penalty < 0

\* The reward rw has the value of raw_reward itself.  tanh(raw / 1.0) * 1.0
\* has that value only where raw is zero; a z-score or a fixed reward is not
\* the raw reward.
RewardIsRaw(rw, raw) ==
    /\ rw.form = "tanh_raw" /\ rw.raw = raw /\ rw.extra = 0
    /\ ~RawClearlyNegative(raw)

\* C19 as stated: during warm-up the reward a step returns and records is
\* its raw_reward, unmodified.
C19_WarmupRewardIsRaw ==
    [][(InBoundsStep /\ reward_warmup_count < warmup_steps) =>
         /\ RewardIsRaw(last'.reward, NewRecord.raw_reward)
         /\ RewardIsRaw(NewRecord.Reward, NewRecord.raw_reward)]_vars

\* The EMA term e has the value of the sample x itself.  A term that folds
\* x into a zero start is ema_alpha * x, which is x only where x is zero.
EmaIsSample(e, x) == e = << x >> /\ ~RawClearlyNegative(x)

\* C20 as stated: the first executed step after construction or reset sets
\* the EMA mean to exactly that step's raw_reward and returns the
\* raw_reward unmodified as its reward.
C20_ColdStart ==
    [][(InBoundsStep /\ history = << >>) =>
         /\ EmaIsSample(reward_ema', NewRecord.raw_reward)
         /\ RewardIsRaw(last'.reward, NewRecord.raw_reward)]_vars

\* C21: from the 11th executed step of an episode on, the reward is the
\* tanh-squashed z-score of the raw reward against the EMA mean and variance
\* as they were before the step; the step then folds the raw reward into the
\* mean, and into the variance as a deviation from that old mean; and unless
\* the step is a bankruptcy the reward has no term outside the tanh, so it
\* lies within [-reward_scale, reward_scale].
C21_SteadyState ==
    [][(InBoundsStep /\ Len(history) >= warmup_steps) =>
         /\ last'.reward.form = "tanh_zscore"
         /\ last'.reward.raw = NewRecord.raw_reward
         /\ last'.reward.mean = reward_ema
         /\ last'.reward.var = reward_var_ema
         /\ reward_ema' = Append(reward_ema, NewRecord.raw_reward)
         /\ reward_var_ema' = Append(reward_var_ema,
                                     [x |-> NewRecord.raw_reward,
                                      mean_len |-> Len(reward_ema)])
         /\ ~(current_step >= MIN_STEPS /\ net_worth' <= 0)
                => last'.reward.extra = 0]_vars

C21_Witness ==
    /\ last.op = "step" /\ Len(history) = warmup_steps + 1
    /\ last.reward.form = "tanh_zscore" /\ last.reward.extra = 0
    /\ Len(last.reward.mean) = warmup_steps /\ net_worth > 0
    /\ Len(reward_ema) = warmup_steps + 1

\* C22 as stated: when the row at the step index lacks ADX_unscaled, or has
\* ADX > 25 and lacks SMA10_unscaled or SMA50_unscaled, the call that built
\* the observation there completed and returned an observation with the
\* Sideways flag set.
C22_MissingFieldRecovered ==
    MissingField(df[current_step + 1]) =>
        /\ observation.raised = "none"
        /\ observation.phase = PhaseOneHot("Sideways")

\* C24 as stated: once a step has returned terminated = True, a further step
\* called before the next reset also returns terminated = True.
C24_TerminatedAbsorbing ==
    [][(last.op = "step" /\ last.terminated
        /\ last'.op = "step" /\ resets_in_row' = 0) =>
         last'.terminated]_vars

\* C25: a step with action exactly 0 is a hold: the trade executor leaves
\* balance, position and transaction_count as they were, trades no shares at
\* no cost, and the step's invalid_action_penalty is 0.
C25_HoldIsNoTrade ==
    [][(InBoundsStep /\ last'.action = 0) =>
         /\ last'.loc.kind = "hold"
         /\ last'.loc.shares_traded = 0 /\ last'.loc.primary_cost = 0
         /\ last'.loc.post_balance = balance
         /\ last'.loc.post_position = position
         /\ last'.loc.post_count = transaction_count
         /\ last'.loc.invalid_act_penalty = 0
         /\ NewRecord.raw_reward.Invalid_Action_Penalty = 0]_vars

C25_Witness ==
    /\ last.op = "step" /\ last.action = 0 /\ last.loc.kind = "hold"
    /\ last.loc.post_position > 0 /\ last.loc.post_balance < cfg.initial_balance
    /\ last.loc.invalid_act_penalty = 0

\* C26: in every executed step the drawdown compared with the liquidation
\* thresholds is that of the post-trade balance and position, valued at the
\* step's price, against the peak raised to that value; and whatever the
\* action was (buy, sell, hold or a rejected order), a drawdown above 0.15
\* with more than one share held sells half of them, and a drawdown above
\* 0.20 with more than one share held then sells the rest.
C26_TradeThenLiquidation ==
    [][InBoundsStep =>
         LET l   == last'.loc
             nw0 == l.post_balance + l.post_position * l.price * MoneyScale
             pk  == IF nw0 > peak THEN nw0 ELSE peak
         IN  /\ l.price = df[current_step + 1].Close_unscaled
             /\ l.kind \in {"buy", "sell", "hold", "rejected"}
             /\ l.pre_net_worth = nw0
             /\ l.dd_num = (IF pk > 0 THEN pk - nw0 ELSE 0)
             /\ l.dd_den = (IF pk > 0 THEN pk ELSE 1)
             /\ (DdOver(l, 3, 20) /\ l.post_position > 1) =>
                    /\ l.partial_fired
                    /\ l.partial_sold = l.post_position \div 2
             /\ (DdOver(l, 1, 5) /\ l.post_position > 1) =>
                    /\ l.full_fired
                    /\ l.full_sold = l.post_position - l.partial_sold
                    /\ position' = 0]_vars

C26_Witness ==
    /\ last.op = "step" /\ last.loc.kind = "buy" /\ last.loc.shares_traded > 0
    /\ DdOver(last.loc, 1, 5) /\ last.loc.post_position > 1
    /\ last.loc.partial_fired /\ last.loc.full_fired /\ position = 0

RECURSIVE SumProfit(_)
SumProfit(h) ==
    IF h = << >> THEN 0
    ELSE h[Len(h)].raw_reward.Profit_Reward + SumProfit(SubSeq(h, 1, Len(h) - 1))

\* C28 as stated: the net_worth_change of an executed step, which the profit
\* reward and the returns window use, is the step's final net worth minus
\* the previous step's final net worth (the initial balance before the first
\* step), so the changes of an episode sum to its last recorded net worth
\* minus the initial balance.
C28_ChangeIsFinalDifference ==
    [][InBoundsStep =>
         /\ last'.loc.net_worth_change = net_worth' - net_worth
         /\ NewRecord.raw_reward.Profit_Reward = 3 * (net_worth' - net_worth)
         /\ returns_window'[Len(returns_window')] = net_worth' - net_worth
         /\ SumProfit(history') = 3 * (net_worth' - cfg.initial_balance)]_vars

\* No step recorded in the episode's history returned terminated = True (the
\* Date of a record is its row index)
NoStepTerminatedYet ==
    \A i \in 1..Len(history) :
        ~(/\ history[i].Date >= MIN_STEPS
          /\ (history[i].NetWorth <= 0 \/ history[i].Date >= Len(df) - 1))

\* C28, amended: while no executed step of the episode has returned
\* terminated, the net_worth_change of an executed step is its post-trade
\* net worth taken before any forced liquidation, minus the previous step's
\* final net worth; it exceeds the difference of the final net worths by the
\* transaction cost of the shares the step's forced liquidations sold, and
\* the amount by which the changes of an episode sum to more than its net
\* gain grows in each step by exactly that cost.
C28_ChangeIsPreLiquidationDifference ==
    [][(InBoundsStep /\ NoStepTerminatedYet) =>
         LET l    == last'.loc
             nw0  == l.post_balance + l.post_position * l.price * MoneyScale
             cost == (l.partial_sold + l.full_sold) * l.price * cfg.transaction_cost
         IN  /\ l.net_worth_change = nw0 - net_worth
             /\ l.net_worth_change = (net_worth' - net_worth) + cost
             /\ NewRecord.raw_reward.Profit_Reward = 3 * l.net_worth_change
             /\ returns_window'[Len(returns_window')] = l.net_worth_change
             /\ SumProfit(history') - 3 * (net_worth' - cfg.initial_balance)
                  = SumProfit(history) - 3 * (net_worth - cfg.initial_balance)
                    + 3 * cost]_vars

C28_Witness ==
    /\ last.op = "step" /\ last.loc.full_fired /\ Len(history) >= 2
    /\ last.loc.net_worth_change
         = last.loc.pre_net_worth - history[Len(history) - 1].NetWorth
    /\ last.loc.pre_net_worth > net_worth
    /\ SumProfit(history) > 3 * (net_worth - cfg.initial_balance)

\* C29: the drawdown penalty of a step is decided by the drawdown d of the
\* post-trade net worth from the peak raised to it, before any forced
\* liquidation: 0 when d <= 0.05, the base penalty times 1.25 when
\* 0.05 < d <= 0.10, the base penalty times 1.25 * 1.25 when d > 0.10
\* (DrawdownBase units make up the base 2.0 + initial_balance*some_factor),
\* and never positive.
C29_DrawdownPenalty ==
    [][InBoundsStep =>
         LET l   == last'.loc
             nw0 == l.post_balance + l.post_position * l.price * MoneyScale
             pk  == IF nw0 > peak THEN nw0 ELSE peak
             dp  == NewRecord.raw_reward.Drawdown_Penalty
         IN  /\ l.dd_num = (IF pk > 0 THEN pk - nw0 ELSE 0)
             /\ l.dd_den = (IF pk > 0 THEN pk ELSE 1)
             /\ dp = (IF ~DdOver(l, 1, 20) THEN 0
                      ELSE IF ~DdOver(l, 1, 10) THEN -((DrawdownBase * 5) \div 4)
                      ELSE -((DrawdownBase * 25) \div 16))
             /\ dp <= 0]_vars

C29_Witness ==
    /\ last.op = "step" /\ last.loc.kind # "none"
    /\ DdOver(last.loc, 1, 20) /\ ~DdOver(last.loc, 1, 10)
    /\ ~last.loc.partial_fired
    /\ history[Len(history)].raw_reward.Drawdown_Penalty = -((DrawdownBase * 5) \div 4)

\* C30: the trade_cost recorded for a step is price * cost rate * (shares of
\* the executed primary trade + shares sold by the partial liquidation +
\* shares sold by the full liquidation); it is 0 when nothing executes; and
\* the transaction penalty is -(trade_cost / initial_balance) * 1.0.
C30_TradeCost ==
    [][InBoundsStep =>
         LET l      == last'.loc
             shares == Abs(l.post_position - position) + l.partial_sold
                         + l.full_sold
         IN  /\ l.shares_traded = Abs(l.post_position - position)
             /\ l.trade_cost = shares * l.price * cfg.transaction_cost
             /\ NewRecord.Trade_Cost = l.trade_cost
             /\ shares = 0 => l.trade_cost = 0
             /\ NewRecord.raw_reward.Transaction_Penalty = -l.trade_cost]_vars

C30_Witness ==
    /\ last.op = "step" /\ last.loc.kind \in {"buy", "sell"}
    /\ last.loc.shares_traded > 0
    /\ last.loc.partial_sold > 0 /\ last.loc.full_sold > 0
    /\ last.loc.trade_cost
         = (last.loc.shares_traded + last.loc.partial_sold + last.loc.full_sold)
             * last.loc.price * cfg.transaction_cost
    /\ last.loc.trade_cost > last.loc.primary_cost

\* C24, amended: once an executed step of the episode has returned
\* terminated = True (bankruptcy or end of data), every further step called
\* before the next reset returns terminated = True; until then an in-bounds
\* step returns terminated = True exactly when its own termination check
\* fires, whether or not an earlier out-of-bounds step returned
\* terminated = True.
C24_ExecutedTerminationAbsorbing ==
    [][(last'.op = "step" /\ resets_in_row' = 0) =>
         IF ~NoStepTerminatedYet THEN last'.terminated
         ELSE InBoundsStep => (last'.terminated <=> TerminationDue)]_vars

C24_Witness ==
    /\ last.op = "step" /\ last.terminated /\ last.loc.kind # "none"
    /\ Len(history) >= 2 /\ net_worth > 0
    /\ history[Len(history) - 1].Date = Len(df) - 1
    /\ history[Len(history)].Date = Len(df) - 1

C31_ReturnsWindow ==
    /\ Len(returns_window) <= WindowCap
    /\ Len(returns_window) = Min(Len(history), WindowCap)
    /\ \A k \in 1..Len(returns_window) :
          ProfitReward(returns_window[k]) =
              history[Len(history) - Len(returns_window) + k].raw_reward.Profit_Reward
    /\ \A i \in 1..Len(history) :
          i < SharpeMin => history[i].raw_reward.Sharpe_Bonus.zero
    /\ (last.op = "step" /\ last.loc.kind # "none" /\ Len(history) < SharpeMin)
          => last.reward.raw.Sharpe_Bonus.zero
    /\ last.op = "reset" => returns_window = << >>

\* More steps than the window holds were made while shares were held: the
\* oldest returns are gone and the entries differ
C31_Witness ==
    /\ Len(history) > WindowCap /\ Len(returns_window) = WindowCap
    /\ position > 0
    /\ returns_window[1] # returns_window[WindowCap]
    /\ ~history[Len(history)].raw_reward.Sharpe_Bonus.zero

\* C32 as stated: for every executed step, a terminating one included, the
\* Reward of the record the step appends equals the reward the step returns
C32_RecordedRewardIsReturned ==
    [][InBoundsStep => NewRecord.Reward = last'.reward]_vars

\* C33: the record an executed step appends has Net Worth = Balance +
\* Position * price, and after the step the stored balance, position and
\* net_worth are the values in that record
C33_RecordMatchesLedger ==
    [][InBoundsStep =>
         /\ NewRecord.NetWorth =
                NewRecord.Balance + NewRecord.Position * NewRecord.Close_unscaled * MoneyScale
         /\ balance' = NewRecord.Balance
         /\ position' = NewRecord.Position
         /\ net_worth' = NewRecord.NetWorth]_vars

\* A step bought shares and a forced liquidation of the same step sold some
\* of them; the record and the ledger show what is left
C33_Witness ==
    /\ last.op = "step" /\ last.loc.kind = "buy" /\ last.loc.partial_fired
    /\ position > 0 /\ history # << >>
    /\ history[Len(history)].Position = position
    /\ history[Len(history)].Balance = balance

\* The drawdown fraction and buffer in the observation are those of the
\* stored peak and net worth
ObservedDrawdownIsStored ==
    /\ observation.raised = "none"
    /\ IF peak > 0
       THEN observation.dd_num = peak - net_worth /\ observation.dd_den = peak
       ELSE observation.dd_num = 0 /\ observation.dd_den = 1
    /\ observation.buffer_num =
           Max(0, cfg.max_dd_num * observation.dd_den
                    - cfg.max_dd_den * observation.dd_num)
    /\ observation.buffer_num >= 0
    /\ observation.buffer_num <= cfg.max_dd_num * observation.dd_den

\* The most recent call was a step in which a forced liquidation sold shares
LiquidationSold ==
    last.op = "step" /\ (last.loc.partial_fired \/ last.loc.full_fired)

C35_StepIndex ==
    [][/\ current_step' >= 0 /\ current_step' <= Len(df) - 1
       /\ (InBoundsStep /\ ~last'.terminated) => current_step' = current_step + 1
       /\ (InBoundsStep /\ last'.terminated) => current_step' = current_step
       /\ OutOfBoundsStep => current_step' = current_step
       /\ InBoundsStep => (current_step < Len(df) /\ last'.loc.kind # "none")]_vars

\* C36: with positive prices, a positive initial balance and a cost rate in
\* [0, 1), net_worth > 0 after every call: a buy leaves a balance >= 0, a
\* sale (ordered or forced) never lowers the balance, the bankruptcy branch
\* is never taken and no step returns the extra -10
C36_AlwaysSolvent ==
    [][/\ net_worth' > 0
       /\ InBoundsStep =>
            /\ last'.loc.kind = "buy" => last'.loc.post_balance >= 0
            /\ last'.loc.kind = "sell" => last'.loc.post_balance >= balance
            /\ balance' >= last'.loc.post_balance
            /\ ~last'.loc.bankrupt
            /\ last'.reward.extra = 0
            /\ NewRecord.Reward = last'.reward]_vars

\* The bankruptcy test ran on a step that sold the holding at the collapsed
\* price: more than nine tenths of the initial balance are lost, not all
C36_Witness ==
    /\ last.op = "step" /\ last.loc.full_fired
    /\ history # << >> /\ history[Len(history)].Date >= MIN_STEPS
    /\ net_worth > 0 /\ net_worth * 10 < cfg.initial_balance
    /\ ~last.loc.bankrupt /\ last.reward.extra = 0

\* The orders the step just made executed: the primary trade when it moved
\* shares, the partial liquidation when it sold at least one share, the full
\* liquidation
OrdersExecuted ==
    (IF last'.loc.post_position # position THEN 1 ELSE 0)
    + (IF last'.loc.partial_sold > 0 THEN 1 ELSE 0)
    + (IF last'.loc.full_sold > 0 THEN 1 ELSE 0)

\* C37: every executed step raises transaction_count by exactly the number
\* of orders it executed (0 to 3); a rejected trade or a hold adds nothing
\* for the primary order, an invalid action adds nothing at all; the count
\* never decreases between resets, and reset sets it to 0
C37_TransactionCount ==
    [][/\ InBoundsStep =>
            /\ transaction_count' = transaction_count + OrdersExecuted
            /\ last'.loc.kind \in {"rejected", "hold"} =>
                    /\ last'.loc.post_count = transaction_count
                    /\ last'.loc.post_position = position
            /\ last'.loc.kind \in {"buy", "sell"} =>
                    /\ last'.loc.post_count = transaction_count + 1
                    /\ last'.loc.post_position # position
       /\ OutOfBoundsStep => transaction_count' = transaction_count
       /\ last'.op = "step" => transaction_count' >= transaction_count
       /\ last'.op = "reset" => transaction_count' = 0]_vars

\* One step executed three orders: a buy, then both forced liquidations
C37_Witness ==
    /\ last.op = "step" /\ last.loc.kind = "buy"
    /\ last.loc.partial_sold > 0 /\ last.loc.full_sold > 0
    /\ transaction_count >= 4

\* C38: with 0 < max_position_size <= 1, a step whose action lies in [-1, 0)
\* taken while shares are held executes a sale of between 1 and position
\* shares and carries no invalid-action penalty; taken while no shares are
\* held it is rejected with the invalid-action penalty
C38_SellExecutesIffHolding ==
    [][(InBoundsStep /\ last'.action < 0) =>
         IF position > 0
         THEN /\ last'.loc.kind = "sell"
              /\ last'.loc.shares_traded >= 1
              /\ last'.loc.shares_traded <= position
              /\ last'.loc.post_position = position - last'.loc.shares_traded
              /\ last'.loc.invalid_act_penalty = 0
         ELSE /\ last'.loc.kind = "rejected"
              /\ last'.loc.shares_traded = 0
              /\ last'.loc.post_position = 0
              /\ last'.loc.invalid_act_penalty = InvalidActionPenalty]_vars

\* Half of a single share was ordered sold: the one share was sold
C38_Witness ==
    /\ last.op = "step" /\ last.action = -5 /\ last.loc.kind = "sell"
    /\ last.loc.shares_traded = 1 /\ last.loc.post_position = 0
    /\ last.loc.invalid_act_penalty = 0

==============================================================================
